---- MODULE Spec2Model ----
(***************************************************************************)
(* State-machine model of edbo's Bayesian-optimisation controller,         *)
(* class BO of src/edbo/bro.py: init_sample, run, simulate, clear_results, *)
(* acquisition_summary and best, over the collaborators it calls (the      *)
(* objective store, the initialisation sequence, the acquisition function  *)
(* and the surrogate model), which are modelled by their contracts.        *)
(***************************************************************************)
EXTENDS Integers, Sequences, FiniteSets, TLC

(* ------------------------------ bounds -------------------------------- *)

\* number of rows of the domain table
DomainSize == 3
\* largest batch_size a controller is constructed with
MaxBatch == 2
\* largest iterations argument of simulate
MaxIter == 2
\* longest results table handed to the constructor
MaxInit == 2
\* longest results table the model lets a call grow (caps duplicate appends)
MaxResults == 3
\* number of distinct hyperparameter triples a fit may return
MaxFits == 2
\* largest integer threshold passed to simulate as fast_comp
MaxThreshold == 3
\* longest results table best() is applied to on its own, and the number of
\* times one domain row occurs in it at most
MaxRows == 6
MaxRepeat == 2

(* ----------------------------- vocabulary ----------------------------- *)

None == "None"
NoError == "NoError"

Domain == 1..DomainSize

\* all sequences of length n over S without a repeated element
RECURSIVE InjSeqs(_, _)
InjSeqs(S, n) ==
  IF n = 0 THEN {<<>>}
  ELSE UNION {{Append(s, x) : x \in S \ {s[j] : j \in 1..Len(s)}} : s \in InjSeqs(S, n - 1)}

Range(s) == {s[j] : j \in 1..Len(s)}

NoRepeat(s) == \A a, b \in 1..Len(s) : s[a] = s[b] => a = b

\* a model class name as str(cls) shows it, one character per element
GP_Model == <<"G", "P", "_", "M", "o", "d", "e", "l">>
RF_Model == <<"R", "F", "_", "M", "o", "d", "e", "l">>
ModelTypes == {GP_Model, RF_Model}

\* Python's  sub in text  on strings
Contains(sub, text) ==
  \E k \in 0..(Len(text) - Len(sub)) : \A j \in 1..Len(sub) : text[k + j] = sub[j]

InitMethods == {"rand", "pam", "kmeans", "external"}

\* the list objects a prior argument can be: the lists built once as the
\* default arguments of __init__, and the lists simulate builds for a
\* prior that was None
ListIds == {"d_ls", "d_os", "d_n", "f_ls", "f_os", "f_n"}

\* what a fit leaves in the surrogate: lengthscale, output scale, noise
FitOutcomes == {[ls |-> 10 * k + 1, os |-> 10 * k + 2, n |-> 10 * k + 3] : k \in 1..MaxFits}
\* a surrogate with no fitted hyperparameters to read
NoPost == [ls |-> 0, os |-> 0, n |-> 0]

\* a Python value that is a bool or an int.  bool is a subclass of int:
\* True is the integer 1 and False the integer 0, and == and < compare the
\* integer values
PyBool(b) == [bool |-> TRUE, int |-> IF b THEN 1 ELSE 0]
PyInt(k) == [bool |-> FALSE, int |-> k]
PyEq(a, b) == a.int = b.int
PyLess(a, k) == a.int < k

\* the values simulate is called with as fast_comp
FastCompArgs == {PyBool(TRUE), PyBool(FALSE)} \cup {PyInt(k) : k \in 0..MaxThreshold}

\* the number of rows DataFrame.head() keeps
HeadRows == 5

\* a statement of the controller that acted on a results table of n rows
Ev(e, n) == [e |-> e, n |-> n]

\* a table handed back to the caller: its rows, and the columns it has
\* besides those of the domain
Table(rows, columns) == [rows |-> rows, columns |-> columns]
NoTable == Table(<<>>, {})
SummaryColumns == {"predicted", "variance"}

VARIABLES
  \* constructor arguments, fixed for the life of the controller
  batch_size, duplicate_experiments, init_method, base_model, has_objective,
  \* self.obj.results (configurations, in insertion order)
  results,
  \* self.proposed_experiments
  proposed_experiments,
  \* self.model
  model,
  \* self.lengthscale_prior, self.outputscale_prior, self.noise_prior:
  \* None or a reference to a two-element list
  lengthscale_prior, outputscale_prior, noise_prior,
  \* the two-element lists [prior, value] the references point to
  heap,
  \* position: "idle" between calls, "sim" inside simulate's loop
  pc,
  \* simulate's loop variable and arguments
  i, iterations, update_priors,
  \* the call last entered, its append argument, and how it ended
  op, append_arg, err,
  \* TRUE until init_sample, run or simulate is first entered
  fresh,
  \* per-call observations: state at call entry and what the call did so far
  pre_results, pre_priors, n_clear, n_fit, n_acq, n_append,
  \* the prior values the surrogate of each iteration was built with, and the
  \* hyperparameters its fit returned
  fit_seed, fit_post,
  \* the process-wide fast-computation setting (fast_computation(flag))
  fast,
  \* simulate's fast_comp argument
  fast_comp,
  \* the prior arguments held by a second controller of the same process
  peer_priors,
  \* the outcome of each domain row (the objective's target column)
  target,
  \* the columns self.proposed_experiments has besides those of the domain
  proposed_columns,
  \* the table the last call returned to its caller
  ret,
  \* per-call observations: the statements executed so far, in order, and
  \* the fast-computation setting in force at each fit
  trace, fit_fast

config_vars == <<batch_size, duplicate_experiments, init_method, base_model, has_objective,
                peer_priors, target>>
prior_vars == <<lengthscale_prior, outputscale_prior, noise_prior, heap>>
sim_vars == <<i, iterations, update_priors, fast_comp>>
hist_vars == <<pre_results, pre_priors, n_clear, n_fit, n_acq, n_append, fit_seed, fit_post,
              trace, fit_fast>>
vars == <<config_vars, results, proposed_experiments, proposed_columns, model, prior_vars,
          fast, pc, sim_vars, op, append_arg, err, ret, fresh, hist_vars>>

(* --------------------------- prior state ------------------------------ *)

\* the value of a prior argument: the [prior, value] pair it refers to, and
\* the empty tuple for None
NoneSpec == <<>>
Deref(ref, h) == IF ref = None THEN NoneSpec ELSE h[ref]

\* the three prior specifications as passed to the surrogate's constructor
PriorValues(ls, os, n, h) ==
  [ls |-> Deref(ls, h), os |-> Deref(os, h), n |-> Deref(n, h)]

PriorState == PriorValues(lengthscale_prior, outputscale_prior, noise_prior, heap)

\* the default arguments of __init__: [GammaPrior(..), initial value]
DefaultHeap ==
  [id \in ListIds |->
     CASE id = "d_ls" -> <<"GammaPrior", 5>>
       [] id = "d_os" -> <<"GammaPrior", 8>>
       [] id = "d_n"  -> <<"GammaPrior", 1>>
       [] OTHER       -> <<None, 0>>]

\* the unfitted base model class held in the self.model slot by __init__
BaseModelClass == [instance |-> FALSE, fitted |-> FALSE, post |-> NoPost]

(* ------------- collaborators, modelled by their contracts ------------- *)

\* objective.clear_results: empties the results table
obj_clear_results(res) == <<>>

\* Init.run: the initial batch.  rand, pam and kmeans pick batch_size distinct
\* rows of the domain; external passes the supplied results through
init_seq_run(method, res, b) ==
  IF method = "external" THEN {res} ELSE InjSeqs(Domain, b)

\* objective.get_results(batch, append=True): resolves the outcomes of the
\* batch from the computational objective or the experiment index and appends
\* them.  Without either, the contract leaves two ways to end: the rows are
\* appended with their outcomes pending, or the call fails for want of an
\* outcome source
obj_get_results(res, batch, src) ==
  IF src THEN {[err |-> NoError, results |-> res \o batch]}
  ELSE {[err |-> NoError, results |-> res \o batch],
        [err |-> "MissingObjectiveError", results |-> res]}

\* acquisition.evaluate: batch_size distinct domain rows, none of them in the
\* results unless duplicates are allowed; the empty set when fewer than
\* batch_size rows are eligible (InsufficientCandidatesError)
acq_evaluate(res, b, dup) ==
  InjSeqs(IF dup THEN Domain ELSE Domain \ Range(res), b)

\* model.fit: the fitted hyperparameters a fit may end with; only a
\* Gaussian-process model has a kernel and a likelihood to read them from
model_fit(base) ==
  IF Contains(<<"G", "P">>, base) THEN FitOutcomes ELSE {NoPost}

\* variant of FittedModel below: the call of fit() left out
FitLeftOut(post) == [instance |-> TRUE, fitted |-> FALSE, post |-> NoPost]

\* a surrogate instance, before and after fit()
NewModel == [instance |-> TRUE, fitted |-> FALSE, post |-> NoPost]
FittedModel(post) == [instance |-> TRUE, fitted |-> TRUE, post |-> post]

\* model.predict / model.variance: defined on a fitted instance; the base
\* class and an instance whose fit failed have nothing to predict with
model_predict(mdl) ==
  CASE ~mdl.instance -> "TypeError"
    [] ~mdl.fitted   -> "AttributeError"
    [] OTHER         -> NoError

(* -------------------------- BO.init_sample ---------------------------- *)

\* variants of the test below: the clear left out, and the clear done for
\* every method
InitSampleNeverClears(method) == FALSE
InitSampleAlwaysClears(method) == TRUE

\* "if self.init_seq.method != 'external': self.obj.clear_results()"
InitSampleClears(method) == method # "external"

\* variant of the test below: the append argument ignored
InitSampleAppendsAnyway(method, append) == method # "external"

\* "if append == True and self.init_seq.method != 'external'"
InitSampleAppends(method, append) == append = TRUE /\ method # "external"

\* the states init_sample can leave: results, proposed batch, error
init_sample_outcomes(append, method, res, b, src) ==
  LET cleared == IF InitSampleClears(method) THEN obj_clear_results(res) ELSE res
  IN  UNION {
        { [results  |-> got.results,
           proposed |-> batch,
           err      |-> got.err,
           n_clear  |-> IF InitSampleClears(method) THEN 1 ELSE 0,
           n_append |-> IF InitSampleAppends(method, append) /\ got.err = NoError
                        THEN 1 ELSE 0,
           events   |-> (IF InitSampleClears(method)
                         THEN <<Ev("clear_results", Len(res))>> ELSE <<>>)
                        \o <<Ev("init_seq.run", Len(cleared))>>
                        \o (IF InitSampleAppends(method, append)
                            THEN <<Ev("get_results", Len(cleared))>> ELSE <<>>)]
          : got \in IF InitSampleAppends(method, append)
                    THEN obj_get_results(cleared, batch, src)
                    ELSE {[err |-> NoError, results |-> cleared]} }
        : batch \in init_seq_run(method, cleared, b) }

(* ------------------- fit and acquire (run, simulate) ------------------ *)

\* variant of the statements below: a surrogate that is already fitted is
\* kept, and only the acquisition is evaluated again
fit_and_acquire_cached(res, prop, mdl, base, b, dup) ==
  LET n == Len(res)
      cands == acq_evaluate(res, b, dup)
  IN  IF n = 0
      THEN {[model |-> mdl, proposed |-> prop, err |-> "EmptyDataError",
             n_fit |-> 0, n_acq |-> 0, built |-> FALSE, acquired |-> FALSE,
         events |-> <<>>]}
      ELSE UNION { LET m == IF mdl.fitted THEN mdl ELSE FittedModel(post)
                       evs == (IF mdl.fitted THEN <<>>
                               ELSE <<Ev("base_model", n), Ev("fit", n)>>)
                              \o <<Ev("acq.evaluate", n)>>
                   IN  IF cands = {}
                       THEN {[model |-> m, proposed |-> prop,
                              err |-> "InsufficientCandidatesError",
                              n_fit |-> IF mdl.fitted THEN 0 ELSE 1, n_acq |-> 1,
                              built |-> ~mdl.fitted, acquired |-> FALSE, events |-> evs]}
                       ELSE {[model |-> m, proposed |-> batch, err |-> NoError,
                              n_fit |-> IF mdl.fitted THEN 0 ELSE 1, n_acq |-> 1,
                              built |-> ~mdl.fitted, acquired |-> TRUE, events |-> evs]
                             : batch \in cands}
                   : post \in model_fit(base) }

\* "self.model = self.base_model(self.obj.X, ...); self.model.fit();
\*  self.proposed_experiments = self.acq.evaluate(self.model, self.obj)":
\* the states the three statements can leave, before any append.  Reading
\* self.obj.X of an empty results table fails before a surrogate is built
\* (EmptyDataError); fit() may fail on the new instance (FitError); the
\* acquisition may find too few eligible rows (InsufficientCandidatesError)
fit_and_acquire(res, prop, mdl, base, b, dup) ==
  LET n == Len(res)
      built == <<Ev("base_model", n), Ev("fit", n)>>
  IN
  IF n = 0
  THEN {[model |-> mdl, proposed |-> prop, err |-> "EmptyDataError",
         n_fit |-> 0, n_acq |-> 0, built |-> FALSE, acquired |-> FALSE,
         events |-> <<>>]}
  ELSE {[model |-> NewModel, proposed |-> prop, err |-> "FitError",
         n_fit |-> 1, n_acq |-> 0, built |-> TRUE, acquired |-> FALSE,
         events |-> built]}
       \cup
       UNION { LET m == FittedModel(post)
                   cands == acq_evaluate(res, b, dup)
                   evs == Append(built, Ev("acq.evaluate", n))
               IN  IF cands = {}
                   THEN {[model |-> m, proposed |-> prop, err |-> "InsufficientCandidatesError",
                          n_fit |-> 1, n_acq |-> 1, built |-> TRUE, acquired |-> FALSE,
                          events |-> evs]}
                   ELSE {[model |-> m, proposed |-> batch, err |-> NoError,
                          n_fit |-> 1, n_acq |-> 1, built |-> TRUE, acquired |-> TRUE,
                          events |-> evs]
                         : batch \in cands}
               : post \in model_fit(base) }

(* ------------------------------ BO.run -------------------------------- *)

\* variant of the test below: the append never made
RunNeverAppends(append) == FALSE

\* "if append == True: self.obj.get_results(self.proposed_experiments, append=append)"
RunAppends(append) == append = TRUE

\* variant of run below: the append made whether or not fit and acquisition
\* succeeded, so a failed call appends the batch of the call before
run_outcomes_append_first(append, res, prop, mdl, base, b, dup, src) ==
  UNION {
    { [results  |-> got.results,
       proposed |-> fa.proposed,
       model    |-> fa.model,
       err      |-> IF fa.err = NoError THEN got.err ELSE fa.err,
       n_fit    |-> fa.n_fit,
       n_acq    |-> fa.n_acq,
       n_append |-> IF RunAppends(append) /\ got.err = NoError THEN 1 ELSE 0,
       built    |-> fa.built,
       acquired |-> fa.acquired,
       events   |-> IF RunAppends(append)
                    THEN Append(fa.events, Ev("get_results", Len(res))) ELSE fa.events]
      : got \in IF RunAppends(append)
                THEN obj_get_results(res, fa.proposed, src)
                ELSE {[err |-> fa.err, results |-> res]} }
    : fa \in fit_and_acquire(res, prop, mdl, base, b, dup) }

\* the states run can leave
run_outcomes(append, res, prop, mdl, base, b, dup, src) ==
  UNION {
    { [results  |-> got.results,
       proposed |-> fa.proposed,
       model    |-> fa.model,
       err      |-> got.err,
       n_fit    |-> fa.n_fit,
       n_acq    |-> fa.n_acq,
       n_append |-> IF fa.err = NoError /\ RunAppends(append) /\ got.err = NoError
                    THEN 1 ELSE 0,
       built    |-> fa.built,
       acquired |-> fa.acquired,
       events   |-> IF fa.err = NoError /\ RunAppends(append)
                    THEN Append(fa.events, Ev("get_results", Len(res))) ELSE fa.events]
      : got \in IF fa.err = NoError /\ RunAppends(append)
                THEN obj_get_results(res, fa.proposed, src)
                ELSE {[err |-> fa.err, results |-> res]} }
    : fa \in fit_and_acquire(res, prop, mdl, base, b, dup) }

(* ---------------------------- BO.simulate ----------------------------- *)

\* "self.init_sample(seed=seed, append=True)"
SimulateInitAppend == TRUE

\* variant of the test below: the estimates carried over in the first pass too
CarryOverFromFirstPass(up, it, base) == up = TRUE /\ Contains(<<"G", "P">>, base)

\* "if update_priors == True and i > 0 and 'GP' in str(self.base_model)"
CarryOver(up, it, base) == up = TRUE /\ it > 0 /\ Contains(<<"G", "P">>, base)

\* variant of the assignment below: the whole list replaced, not its second element
SetEstimateReplacingList(ref, fresh_id, post, h) ==
  IF ref = None
  THEN [ref |-> fresh_id, heap |-> [h EXCEPT ![fresh_id] = <<None, post>>]]
  ELSE [ref |-> ref, heap |-> [h EXCEPT ![ref] = <<None, post>>]]

\* "if self.x_prior == None: self.x_prior = [None, post] else: self.x_prior[1] = post"
\* (fresh names the list the first branch builds)
SetEstimate(ref, fresh_id, post, h) ==
  IF ref = None
  THEN [ref |-> fresh_id, heap |-> [h EXCEPT ![fresh_id] = <<None, post>>]]
  ELSE [ref |-> ref, heap |-> [h EXCEPT ![ref] = <<h[ref][1], post>>]]

\* the three assignments, reading the hyperparameters of the surrogate that
\* self.model holds, which is the one fitted in the iteration before
update_prior_state(ls, os, n, h, mdl) ==
  LET a == SetEstimate(ls, "f_ls", mdl.post.ls, h)
      b == SetEstimate(os, "f_os", mdl.post.os, a.heap)
      c == SetEstimate(n, "f_n", mdl.post.n, b.heap)
  IN  [ls |-> a.ref, os |-> b.ref, n |-> c.ref, heap |-> c.heap]

\* "if fast_comp == True: fast_computation(True)
\*  elif fast_comp == False: fast_computation(False)
\*  elif fast_comp < len(self.obj.y): fast_computation(True)":
\* the setting the toggle leaves, from the setting cur it finds
toggle_fast(fc, n, cur) ==
  CASE PyEq(fc, PyBool(TRUE))  -> TRUE
    [] PyEq(fc, PyBool(FALSE)) -> FALSE
    [] PyLess(fc, n)           -> TRUE
    [] OTHER                   -> cur

\* variant of the test below: the loop left one pass early
LoopStopsEarly(it, N) == it < N - 1

\* "for i in range(iterations)": another pass follows
LoopContinues(it, N) == it < N

\* variant of the statement below: the append left out of the loop
IterNeverAppends == FALSE

\* "self.obj.get_results(self.proposed_experiments, append=True)"
IterAppends == TRUE

\* the states one pass of simulate's loop body can leave
simulate_iter_outcomes(it, up, res, prop, mdl, ls, os, n, h, base, b, dup, src) ==
  LET pri == IF CarryOver(up, it, base)
             THEN update_prior_state(ls, os, n, h, mdl)
             ELSE [ls |-> ls, os |-> os, n |-> n, heap |-> h]
  IN  UNION {
        { [results  |-> got.results,
           proposed |-> fa.proposed,
           model    |-> fa.model,
           pri      |-> pri,
           err      |-> got.err,
           built    |-> fa.built,
           acquired |-> fa.acquired,
           n_fit    |-> fa.n_fit,
           n_acq    |-> fa.n_acq,
           n_append |-> IF fa.err = NoError /\ IterAppends /\ got.err = NoError
                        THEN 1 ELSE 0,
           events   |-> IF fa.err = NoError /\ IterAppends
                        THEN Append(fa.events, Ev("get_results", Len(res))) ELSE fa.events]
          : got \in IF fa.err = NoError /\ IterAppends
                    THEN obj_get_results(res, fa.proposed, src)
                    ELSE {[err |-> fa.err, results |-> res]} }
        : fa \in fit_and_acquire(res, prop, mdl, base, b, dup) }

(* ----------------------- BO.acquisition_summary ----------------------- *)

\* variant of the copy below: the summary columns are added to the stored
\* table itself
SummaryWithoutCopy(cols, added) == cols \cup added

\* "proposed_experiments = self.proposed_experiments.copy()": the columns
\* added later go to the copy, the stored table keeps the columns it has
SummaryStoredColumns(cols, added) == cols

\* how the call ends on the stored batch and surrogate: the error of the
\* surrogate's predict if it has one, else the copy of the stored batch with
\* the two summary columns
acquisition_summary_outcome(prop, cols, mdl) ==
  LET e == model_predict(mdl)
  IN  IF e # NoError
      THEN [err |-> e, ret |-> NoTable, stored_columns |-> cols]
      ELSE [err |-> NoError,
            ret |-> Table(prop, cols \cup SummaryColumns),
            stored_columns |-> SummaryStoredColumns(cols, SummaryColumns)]

(* ------------------------------ BO.best ------------------------------- *)

\* "results_input().sort_values(self.obj.target, ascending=False)": the row
\* positions of res ordered by outcome, largest first.  The default sort kind
\* is quicksort, which is not a stable sort: rows of equal outcome come out
\* in any order
RECURSIVE sort_values(_, _, _)
sort_values(idxs, res, tgt) ==
  IF idxs = {} THEN {<<>>}
  ELSE LET top == {k \in idxs : \A m \in idxs : tgt[res[k]] >= tgt[res[m]]}
       IN  UNION {{<<k>> \o s : s \in sort_values(idxs \ {k}, res, tgt)} : k \in top}

\* "sort.head()"
head(s) == SubSeq(s, 1, IF Len(s) < HeadRows THEN Len(s) ELSE HeadRows)

\* the tables best can return, as row positions of the results table
best_outcomes(res, tgt) ==
  {Table(head(s), {}) : s \in sort_values(1..Len(res), res, tgt)}

(* ------------------------------ actions ------------------------------- *)

\* what every call records when it is entered
Enter(name, append) ==
  /\ op' = name
  /\ append_arg' = append
  /\ pre_results' = results
  /\ pre_priors' = PriorState
  /\ fit_seed' = <<>>
  /\ fit_post' = <<>>
  /\ fit_fast' = <<>>

\* no loop of simulate is running
NoLoop ==
  /\ i' = 0
  /\ iterations' = 0
  /\ update_priors' = FALSE
  /\ fast_comp' = PyBool(FALSE)

\* the model stops a call that would grow the results table past MaxResults;
\* without duplicates the domain itself bounds the table
Within(n) == duplicate_experiments => n <= MaxResults

init_sample ==
  /\ pc = "idle"
  /\ \E append \in BOOLEAN :
       /\ \E o \in init_sample_outcomes(append, init_method, results, batch_size, has_objective) :
            /\ Enter("init_sample", append)
            /\ results' = o.results
            /\ proposed_experiments' = o.proposed
            /\ err' = o.err
            /\ n_clear' = o.n_clear
            /\ n_append' = o.n_append
            /\ trace' = o.events
            /\ ret' = IF o.err = NoError THEN Table(o.proposed, {}) ELSE NoTable
  /\ proposed_columns' = {}
  /\ n_fit' = 0
  /\ n_acq' = 0
  /\ fresh' = FALSE
  /\ NoLoop
  /\ UNCHANGED <<config_vars, model, prior_vars, fast, pc>>

run ==
  /\ pc = "idle"
  /\ \E append \in BOOLEAN :
       /\ append => Within(Len(results) + batch_size)
       /\ \E o \in run_outcomes(append, results, proposed_experiments, model, base_model,
                                batch_size, duplicate_experiments, has_objective) :
            /\ Enter("run", append)
            /\ results' = o.results
            /\ proposed_experiments' = o.proposed
            /\ model' = o.model
            /\ err' = o.err
            /\ n_fit' = o.n_fit
            /\ n_acq' = o.n_acq
            /\ n_append' = o.n_append
            /\ trace' = o.events
            /\ proposed_columns' = IF o.acquired THEN {} ELSE proposed_columns
            /\ ret' = IF o.err = NoError THEN Table(o.proposed, {}) ELSE NoTable
  /\ n_clear' = 0
  /\ fresh' = FALSE
  /\ NoLoop
  /\ UNCHANGED <<config_vars, prior_vars, fast, pc>>

\* simulate up to the loop: the call of init_sample, for fast_comp drawn
\* from fcs
simulate_call(fcs) ==
  /\ pc = "idle"
  /\ \E N \in 0..MaxIter, up \in BOOLEAN, fc \in fcs :
       /\ Within((IF init_method = "external" THEN Len(results) ELSE batch_size)
                 + N * batch_size)
       /\ iterations' = N
       /\ update_priors' = up
       /\ fast_comp' = fc
       /\ \E o \in init_sample_outcomes(SimulateInitAppend, init_method, results, batch_size,
                                        has_objective) :
            /\ Enter("simulate", SimulateInitAppend)
            /\ results' = o.results
            /\ proposed_experiments' = o.proposed
            /\ err' = o.err
            /\ n_clear' = o.n_clear
            /\ n_append' = o.n_append
            /\ trace' = o.events
            /\ pc' = IF o.err = NoError THEN "sim" ELSE "idle"
  /\ proposed_columns' = {}
  /\ ret' = NoTable
  /\ i' = 0
  /\ n_fit' = 0
  /\ n_acq' = 0
  /\ fresh' = FALSE
  /\ UNCHANGED <<config_vars, model, prior_vars, fast>>

\* simulate called with the default fast_comp=False
simulate_start == simulate_call({PyBool(FALSE)})

\* simulate called with a boolean or an integer threshold as fast_comp
simulate_start_fast_comp == simulate_call(FastCompArgs)

\* one pass of the loop body
simulate_iter ==
  /\ pc = "sim"
  /\ LoopContinues(i, iterations)
  /\ fast' = toggle_fast(fast_comp, Len(results), fast)
  /\ \E o \in simulate_iter_outcomes(i, update_priors, results, proposed_experiments, model,
                                     lengthscale_prior, outputscale_prior, noise_prior, heap,
                                     base_model, batch_size, duplicate_experiments,
                                     has_objective) :
       /\ results' = o.results
       /\ proposed_experiments' = o.proposed
       /\ model' = o.model
       /\ lengthscale_prior' = o.pri.ls
       /\ outputscale_prior' = o.pri.os
       /\ noise_prior' = o.pri.n
       /\ heap' = o.pri.heap
       /\ err' = o.err
       /\ n_fit' = n_fit + o.n_fit
       /\ n_acq' = n_acq + o.n_acq
       /\ n_append' = n_append + o.n_append
       /\ fit_seed' = IF o.built
                      THEN Append(fit_seed, PriorValues(o.pri.ls, o.pri.os, o.pri.n, o.pri.heap))
                      ELSE fit_seed
       /\ fit_post' = IF o.model.fitted /\ o.built THEN Append(fit_post, o.model.post)
                      ELSE fit_post
       /\ fit_fast' = IF o.built THEN Append(fit_fast, fast') ELSE fit_fast
       /\ trace' = trace \o o.events
       /\ proposed_columns' = IF o.acquired THEN {} ELSE proposed_columns
       /\ pc' = IF o.err = NoError THEN "sim" ELSE "idle"
       /\ i' = IF o.err = NoError THEN i + 1 ELSE i
  /\ UNCHANGED <<config_vars, iterations, update_priors, fast_comp, op, append_arg, ret,
                 fresh, pre_results, pre_priors, n_clear>>

\* the loop is exhausted: simulate returns
simulate_return ==
  /\ pc = "sim"
  /\ ~LoopContinues(i, iterations)
  /\ pc' = "idle"
  /\ UNCHANGED <<config_vars, results, proposed_experiments, proposed_columns, model,
                 prior_vars, fast, sim_vars, op, append_arg, err, ret, fresh, hist_vars>>

clear_results ==
  /\ pc = "idle"
  /\ Enter("clear_results", FALSE)
  /\ results' = obj_clear_results(results)
  /\ err' = NoError
  /\ n_clear' = 1
  /\ n_fit' = 0
  /\ n_acq' = 0
  /\ n_append' = 0
  /\ trace' = <<Ev("clear_results", Len(results))>>
  /\ ret' = NoTable
  /\ NoLoop
  /\ UNCHANGED <<config_vars, proposed_experiments, proposed_columns, model, prior_vars,
                 fast, pc, fresh>>

\* the controller has no check of its own: the call ends as the surrogate's
\* predict ends on whatever self.model holds
acquisition_summary ==
  /\ pc = "idle"
  /\ Enter("acquisition_summary", FALSE)
  /\ LET o == acquisition_summary_outcome(proposed_experiments, proposed_columns, model)
     IN  /\ err' = o.err
         /\ ret' = o.ret
         /\ proposed_columns' = o.stored_columns
  /\ n_clear' = 0
  /\ n_fit' = 0
  /\ n_acq' = 0
  /\ n_append' = 0
  /\ trace' = <<>>
  /\ NoLoop
  /\ UNCHANGED <<config_vars, results, proposed_experiments, model, prior_vars, fast, pc,
                 fresh>>

\* best reads the results table and returns its five best rows
best ==
  /\ pc = "idle"
  /\ Enter("best", FALSE)
  /\ ret' \in best_outcomes(results, target)
  /\ err' = NoError
  /\ n_clear' = 0
  /\ n_fit' = 0
  /\ n_acq' = 0
  /\ n_append' = 0
  /\ trace' = <<>>
  /\ NoLoop
  /\ UNCHANGED <<config_vars, results, proposed_experiments, proposed_columns, model,
                 prior_vars, fast, pc, fresh>>

(* --------------------------- specification ---------------------------- *)

\* results tables a controller can be constructed with
InitialResults == {[j \in 1..k |-> j] : k \in 0..MaxInit}

\* results tables of up to n rows in which a domain row occurs up to
\* MaxRepeat times
RECURSIVE RowSeqs(_)
RowSeqs(n) ==
  IF n = 0 THEN {<<>>}
  ELSE LET shorter == RowSeqs(n - 1)
           longest == {Append(s, x) : s \in {t \in shorter : Len(t) = n - 1}, x \in Domain}
       IN  shorter \cup
           {s \in longest :
              \A x \in Domain : Cardinality({j \in 1..Len(s) : s[j] = x}) <= MaxRepeat}

\* the outcome of each domain row under the objective the controllers are
\* given: rows 1 and 2 have the same outcome
DefaultTarget == [c \in Domain |-> (c + 1) \div 2]

\* the prior arguments of a controller constructed with the defaults: the
\* list objects Python built once, when __init__ was defined
DefaultPriors == [ls |-> "d_ls", os |-> "d_os", n |-> "d_n"]

\* the state __init__ leaves, for the given sets of constructor arguments;
\* fasts are the values of fast_comp, tables the results tables
ConstructedWith(models, methods, dups, objs, dflts, fasts, tables) ==
  /\ batch_size \in 1..MaxBatch
  /\ duplicate_experiments \in dups
  /\ init_method \in methods
  /\ base_model \in models
  /\ has_objective \in objs
  /\ results \in tables
  /\ target = DefaultTarget
  /\ proposed_experiments = <<>>
  /\ proposed_columns = {}
  /\ model = BaseModelClass
  /\ \E dflt \in dflts :
       /\ lengthscale_prior = (IF dflt THEN DefaultPriors.ls ELSE None)
       /\ outputscale_prior = (IF dflt THEN DefaultPriors.os ELSE None)
       /\ noise_prior = (IF dflt THEN DefaultPriors.n ELSE None)
  /\ peer_priors = DefaultPriors
  /\ heap = DefaultHeap
  /\ fast \in fasts
  /\ fast_comp = PyBool(FALSE)
  /\ ret = NoTable
  /\ pc = "idle"
  /\ i = 0
  /\ iterations = 0
  /\ update_priors = FALSE
  /\ op = "__init__"
  /\ append_arg = FALSE
  /\ err = NoError
  /\ fresh = TRUE
  /\ pre_results = results
  /\ pre_priors = PriorValues(lengthscale_prior, outputscale_prior, noise_prior, heap)
  /\ n_clear = 0
  /\ n_fit = 0
  /\ n_acq = 0
  /\ n_append = 0
  /\ fit_seed = <<>>
  /\ fit_post = <<>>
  /\ trace = <<>>
  /\ fit_fast = <<>>

\* constructed with the default fast_comp=False
Constructed(models, methods, dups, objs, dflts) ==
  ConstructedWith(models, methods, dups, objs, dflts, {FALSE}, InitialResults)

Next ==
  \/ init_sample
  \/ run
  \/ simulate_start
  \/ simulate_iter
  \/ simulate_return
  \/ clear_results
  \/ acquisition_summary
  \/ best

\* controllers with a surrogate that has no hyperparameter priors to carry
\* over, every initialisation method, with and without duplicates and with
\* and without a source of outcomes
Init == Constructed({RF_Model}, InitMethods, BOOLEAN, BOOLEAN, {TRUE})

Spec == Init /\ [][Next]_vars

\* controllers with the Gaussian-process surrogate, constructed with the
\* default priors or with None priors, outcomes resolvable
InitGP == Constructed({GP_Model}, {"rand", "external"}, {FALSE}, {TRUE}, BOOLEAN)

SpecGP == InitGP /\ [][Next]_vars

\* the same calls, simulate with every kind of fast_comp argument
NextFast ==
  \/ init_sample
  \/ run
  \/ simulate_start_fast_comp
  \/ simulate_iter
  \/ simulate_return
  \/ clear_results
  \/ acquisition_summary
  \/ best

\* controllers constructed with fast_comp True or False
InitFast ==
  ConstructedWith({RF_Model}, {"rand", "external"}, {FALSE}, {TRUE}, {TRUE}, BOOLEAN,
                  InitialResults)

SpecFast == InitFast /\ [][NextFast]_vars

\* best applied to results tables of up to MaxRows rows, rows repeated or not
InitBest ==
  ConstructedWith({RF_Model}, {"external"}, {TRUE}, {TRUE}, {TRUE}, {FALSE}, RowSeqs(MaxRows))

SpecBest == InitBest /\ [][best]_vars

(* ------------------------------- claims ------------------------------- *)

Returned(name) == op = name /\ pc = "idle" /\ err = NoError
Failed(name) == op = name /\ pc = "idle" /\ err # NoError

\* the size of the results table right after simulate's initialisation step
InitialBatchSize == IF init_method = "external" THEN Len(pre_results) ELSE batch_size

\* C1: a simulate(iterations=N) call that completes leaves the results table
\* with (initial batch size) + N * batch_size observations, whatever the table
\* held before the call.
C1_SimulateSize ==
  Returned("simulate") => Len(results) = InitialBatchSize + iterations * batch_size

C1_Witness ==
  /\ Returned("simulate")
  /\ iterations = MaxIter
  /\ init_method = "rand"
  /\ Len(pre_results) > 0
  /\ n_append = 1 + MaxIter

\* C2: a run(append=True) call that completes on a non-empty results table
\* leaves it batch_size longer, and without duplicate_experiments no
\* configuration of the returned batch was in the table before the call.
C2_RunAppend ==
  (Returned("run") /\ append_arg /\ Len(pre_results) > 0) =>
    /\ Len(results) = Len(pre_results) + batch_size
    /\ ~duplicate_experiments => Range(proposed_experiments) \cap Range(pre_results) = {}

C2_Witness ==
  /\ Returned("run")
  /\ append_arg
  /\ ~duplicate_experiments
  /\ batch_size = MaxBatch
  /\ Len(pre_results) > 0
  /\ n_append = 1

\* C3: without duplicate_experiments, from a duplicate-free results table drawn
\* from the domain, every configuration of the results table is a domain row
\* and none occurs twice, after any sequence of calls.
C3_ResultsInDomainNoRepeat ==
  ~duplicate_experiments => (Range(results) \subseteq Domain /\ NoRepeat(results))

C3_Witness ==
  /\ ~duplicate_experiments
  /\ Returned("simulate")
  /\ init_method = "rand"
  /\ Len(pre_results) > 0
  /\ Len(results) = DomainSize

\* C4: without a computational objective and without a result index simulate
\* refuses to start: it fails with MissingObjectiveError before anything is
\* cleared, fitted, acquired or appended.
C4_RefusesToStart ==
  (op = "simulate" /\ ~has_objective) =>
    /\ pc = "idle"
    /\ err = "MissingObjectiveError"
    /\ n_clear = 0 /\ n_fit = 0 /\ n_acq = 0 /\ n_append = 0
    /\ results = pre_results

\* C5: a simulate call that fails in some iteration (fit failure, acquisition
\* unable to fill a batch) leaves no observation it appended in the results
\* table and leaves the prior specifications as they were at call entry.
C5_SimulateFailureLeavesNoAppend ==
  (Failed("simulate") /\ err \in {"EmptyDataError", "FitError", "InsufficientCandidatesError"}) =>
    /\ results \in {pre_results, <<>>}
    /\ n_append = 0
    /\ PriorState = pre_priors

\* C6: a run call that fails (fit on an empty results table, fit failure,
\* fewer than batch_size eligible candidates) leaves the results table and the
\* prior specifications exactly as they were at call entry, for either value
\* of append.
C6_RunFailureLeavesState ==
  (Failed("run") /\ err \in {"EmptyDataError", "FitError", "InsufficientCandidatesError"}) =>
    /\ results = pre_results
    /\ PriorState = pre_priors

C6_Witness ==
  /\ Failed("run")
  /\ err = "InsufficientCandidatesError"
  /\ append_arg
  /\ Len(proposed_experiments) > 0
  /\ PriorState # PriorValues("d_ls", "d_os", "d_n", DefaultHeap)

\* C7: acquisition_summary on a controller on which no batch was ever proposed
\* fails with NoProposalError.
C7_SummaryWithoutProposal ==
  (op = "acquisition_summary" /\ fresh) => err = "NoProposalError"

\* C8: with init_method external, init_sample leaves the results table as it
\* was, for either value of append, and simulate enters its loop with the
\* externally supplied results.
C8_ExternalPassThrough ==
  init_method = "external" =>
    /\ op = "init_sample" => results = pre_results
    /\ (op = "simulate" /\ pc = "sim" /\ i = 0) => results = pre_results

C8_Witness ==
  /\ init_method = "external"
  /\ op = "init_sample"
  /\ append_arg
  /\ err = NoError
  /\ Len(results) > 0
  /\ proposed_experiments = results

\* a batch of batch_size distinct domain rows
IsBatch(s) == Len(s) = batch_size /\ NoRepeat(s) /\ Range(s) \subseteq Domain

\* C9: with init_method rand, pam or kmeans, init_sample discards what the
\* results table held: after init_sample(append=True) the table holds exactly
\* the returned batch of batch_size distinct domain rows, after
\* init_sample(append=False) it is empty and the proposed batch is the
\* returned batch.
C9_InitSampleDiscards ==
  (Returned("init_sample") /\ init_method \in {"rand", "pam", "kmeans"}) =>
    /\ IsBatch(proposed_experiments)
    /\ append_arg => results = proposed_experiments
    /\ ~append_arg => results = <<>>

C9_Witness ==
  /\ Returned("init_sample")
  /\ init_method = "pam"
  /\ append_arg
  /\ Len(pre_results) > 0
  /\ Range(results) \cap Range(pre_results) = {}
  /\ Len(results) = MaxBatch

\* a field of a record of three priors or three hyperparameters
Field(r, k) == CASE k = "ls" -> r.ls [] k = "os" -> r.os [] k = "n" -> r.n

\* the distribution half of a prior specification (None for a None prior)
DistOf(spec) == IF spec = NoneSpec THEN None ELSE spec[1]

\* C10: in simulate with update_priors and a Gaussian-process base model, the
\* surrogate of iteration 0 is built with the prior specifications of call
\* entry, and the surrogate of every later iteration with, for each of the
\* three priors, the distribution of call entry (None for a None prior) and
\* the value fitted in the iteration before.
C10_PriorCarryOver ==
  (op = "simulate" /\ update_priors /\ Contains(<<"G", "P">>, base_model)) =>
    /\ Len(fit_seed) >= 1 => fit_seed[1] = pre_priors
    /\ \A j \in 2..Len(fit_seed) : \A k \in {"ls", "os", "n"} :
         Field(fit_seed[j], k) = <<DistOf(Field(pre_priors, k)), Field(fit_post[j - 1], k)>>

C10_Witness ==
  /\ op = "simulate"
  /\ update_priors
  /\ Len(fit_seed) = 2
  /\ Len(fit_post) = 2
  /\ fit_post[1] # fit_post[2]
  /\ pre_priors.ls # NoneSpec
  /\ pre_priors.ls[2] # 5

\* the fits of the call so far, in order, each with the size of the results
\* table it was made on
FitEvents == SelectSeq(trace, LAMBDA ev : ev.e = "fit")

\* C11: in simulate with an integer threshold T as fast_comp, fast computation
\* is in force during the fit of an iteration exactly when the results table
\* at the start of that iteration has more than T rows, for every T >= 0 and
\* whatever setting the constructor or an earlier call left; with a boolean
\* fast_comp the setting in force equals that boolean.
C11_FastModeFollowsThreshold ==
  op = "simulate" =>
    \A j \in 1..Len(fit_fast) :
      fit_fast[j] = (IF fast_comp.bool THEN fast_comp.int = 1
                     ELSE FitEvents[j].n > fast_comp.int)

\* the prior specifications the second controller would hand to a surrogate
PeerPriorState == PriorValues(peer_priors.ls, peer_priors.os, peer_priors.n, heap)

\* C12: the prior specifications are owned by one controller: of two
\* controllers constructed independently, both with the default prior
\* arguments included, no sequence of run and simulate calls on one changes
\* the prior specifications held by the other.
C12_PeerPriorsUntouched ==
  PeerPriorState = PriorValues(DefaultPriors.ls, DefaultPriors.os, DefaultPriors.n, DefaultHeap)

\* the outcome of the row at position k of the results table
OutcomeAt(k) == target[results[k]]

\* C13: best() returns at most 5 observations in the order of their outcomes,
\* largest first, so the first row's outcome is at least that of every other
\* row; rows of equal outcome come in the order they were inserted; and best()
\* leaves the results table as it was.
C13_BestSortedStable ==
  Returned("best") =>
    /\ Len(ret.rows) <= HeadRows
    /\ \A a, b \in 1..Len(ret.rows) :
         a < b => /\ OutcomeAt(ret.rows[a]) >= OutcomeAt(ret.rows[b])
                  /\ OutcomeAt(ret.rows[a]) = OutcomeAt(ret.rows[b]) => ret.rows[a] < ret.rows[b]
    /\ Len(ret.rows) > 0 => \A k \in 1..Len(results) : OutcomeAt(ret.rows[1]) >= OutcomeAt(k)
    /\ results = pre_results

\* the statements of simulate's initialisation step, on the table of call entry
ExpectedInit ==
  IF init_method = "external"
  THEN <<Ev("init_seq.run", Len(pre_results))>>
  ELSE <<Ev("clear_results", Len(pre_results)), Ev("init_seq.run", 0), Ev("get_results", 0)>>

\* the statements of k passes of simulate's loop: pass j constructs, fits,
\* acquires and appends on the initial batch and the j batches appended before
RECURSIVE ExpectedLoop(_)
ExpectedLoop(k) ==
  IF k = 0 THEN <<>>
  ELSE LET n == InitialBatchSize + (k - 1) * batch_size
       IN  ExpectedLoop(k - 1) \o
           <<Ev("base_model", n), Ev("fit", n), Ev("acq.evaluate", n), Ev("get_results", n)>>

\* C14: a simulate(iterations=N) call that does not fail makes exactly N
\* iterations, none skipped and none added, each of them constructing a new
\* surrogate from the base model type, fitting it, acquiring and appending, in
\* that order; the surrogate of iteration i is fitted on the results table
\* holding the initial batch and the i batches appended before, and the
\* acquisition uses that surrogate and that table.
C14_SimulateRunsAllIterations ==
  Returned("simulate") =>
    /\ i = iterations
    /\ trace = ExpectedInit \o ExpectedLoop(iterations)
    /\ n_fit = iterations
    /\ n_acq = iterations
    /\ iterations > 0 => (model.instance /\ model.fitted)

C14_Witness ==
  /\ Returned("simulate")
  /\ iterations = MaxIter
  /\ batch_size = 1
  /\ init_method = "kmeans"
  /\ Len(trace) = 3 + 4 * MaxIter
  /\ trace[Len(trace)] = Ev("get_results", MaxIter)

\* the statements of a run(append=False) call that completes on n rows
ExpectedRun(n) == <<Ev("base_model", n), Ev("fit", n), Ev("acq.evaluate", n)>>

\* C15: run(append=False) leaves the results table as it was and replaces the
\* stored surrogate and the proposed batch; of two run(append=False) calls in
\* a row each constructs and fits a new surrogate, nothing is cached, and
\* both fit on the same results table.
C15_RunWithoutAppendRefits ==
  [][ (op' = "run" /\ ~append_arg' /\ err' = NoError) =>
        /\ results' = results
        /\ trace' = ExpectedRun(Len(results))
        /\ n_fit' = 1
        /\ model'.instance /\ model'.fitted
        /\ IsBatch(proposed_experiments') /\ proposed_columns' = {}
        /\ (op = "run" /\ ~append_arg /\ err = NoError) => trace' = trace ]_vars

C15_Witness ==
  /\ Returned("run")
  /\ ~append_arg
  /\ model.fitted
  /\ trace = ExpectedRun(Len(results))
  /\ results = pre_results
  /\ Len(results) = MaxInit
  /\ n_append = 0

\* C16: acquisition_summary only reads: a call that completes leaves the
\* results table, the proposed batch (no column added to it), the stored
\* surrogate and the prior specifications as they were, and the table it
\* returns has exactly the rows of the current proposed batch.
C16_SummaryReadOnly ==
  [][ (op' = "acquisition_summary" /\ err' = NoError) =>
        /\ results' = results
        /\ proposed_experiments' = proposed_experiments
        /\ proposed_columns' = proposed_columns
        /\ model' = model
        /\ <<lengthscale_prior', outputscale_prior', noise_prior'>>
             = <<lengthscale_prior, outputscale_prior, noise_prior>>
        /\ heap' = heap
        /\ ret'.rows = proposed_experiments ]_vars

C16_Witness ==
  /\ Returned("acquisition_summary")
  /\ ret = Table(proposed_experiments, SummaryColumns)
  /\ Len(proposed_experiments) = MaxBatch
  /\ proposed_columns = {}
  /\ model.fitted

\* C17: after any sequence of calls, whenever the proposed batch is not empty
\* the stored surrogate is a fitted model instance, so acquisition_summary
\* always has a fitted surrogate to evaluate the proposed batch with.
C17_ProposedImpliesFitted ==
  Len(proposed_experiments) > 0 => (model.instance /\ model.fitted)

\* a step of run, or of simulate's loop, in which the acquisition returned a
\* batch
AcquiredStep ==
  /\ \/ op' = "run"
     \/ op' = "simulate" /\ pc = "sim" /\ LoopContinues(i, iterations)
  /\ n_acq' = (IF op' = "run" THEN 0 ELSE n_acq) + 1
  /\ err' # "InsufficientCandidatesError"

\* C17 (amended): every step of run or of simulate's loop in which the
\* acquisition returned a batch leaves that batch as the proposed batch and
\* the fitted instance it was computed with as the stored surrogate, and
\* clear_results, best and acquisition_summary change neither; init_sample
\* assigns the proposed batch without constructing or fitting a surrogate.
C17_FittedWhenAcquired ==
  [][ /\ AcquiredStep =>
           /\ model'.instance /\ model'.fitted
           /\ IsBatch(proposed_experiments')
      /\ op' \in {"clear_results", "best", "acquisition_summary"} =>
           /\ model' = model
           /\ proposed_experiments' = proposed_experiments
      /\ op' = "init_sample" => model' = model ]_vars

C17_Witness ==
  /\ Returned("acquisition_summary")
  /\ model.fitted
  /\ IsBatch(proposed_experiments)
  /\ results = <<>>
  /\ ret.rows = proposed_experiments

\* controllers of either base model, constructed with the default priors or
\* with None priors
InitModels == Constructed(ModelTypes, {"rand"}, {FALSE}, {TRUE}, BOOLEAN)

SpecModels == InitModels /\ [][Next]_vars

\* C18: the prior specifications are modified only by simulate with
\* update_priors: init_sample, run, clear_results, best, acquisition_summary,
\* and simulate with update_priors false, with a base model that is not a
\* Gaussian process, or with a single iteration, leave the three prior
\* specifications as they were before the call.
C18_PriorsOnlyBySimulateUpdate ==
  (\/ op \in {"init_sample", "run", "clear_results", "best", "acquisition_summary"}
   \/ /\ op = "simulate"
      /\ \/ ~update_priors
         \/ ~Contains(<<"G", "P">>, base_model)
         \/ iterations <= 1)
  => PriorState = pre_priors

C18_Witness ==
  /\ Returned("simulate")
  /\ update_priors
  /\ iterations = 1
  /\ Contains(<<"G", "P">>, base_model)
  /\ n_fit = 1
  /\ model.post # NoPost
  /\ PriorState = pre_priors
  /\ pre_priors.ls # NoneSpec

====
